---- MODULE Spec2Model ----
(***************************************************************************)
(* Model of the bulk-dispatch engine of src-tauri/whatsapp/mod.rs:         *)
(* WhatsAppManager (session store), the personalization loop (template     *)
(* renderer) and send_bulk_messages (bulk dispatcher).                     *)
(*                                                                         *)
(* Strings are sequences of one-character strings.  Option<String> fields  *)
(* are the string "None" or a value; the store's session field is the      *)
(* empty set (None) or a singleton holding the generated identifier.       *)
(* An async fn is cut into steps at its await points; `pc` is the position *)
(* of each caller.                                                         *)
(***************************************************************************)
EXTENDS Integers, Sequences, FiniteSets, TLC

\* ---------------------------------------------------------------- bounds
MaxRecipients == 2      \* longest recipient sequence of a batch request
MaxSessions == 2        \* identifiers the uuid generator hands out in a run
MaxTemplateLen == 3     \* longest template of the renderer specification
\* the two tasks that call into the same manager
Callers == {"A", "B"}

\* ---------------------------------------------------------------- strings
None == "None"

Str1(a) == <<a>>
Str3(a, b, c) == <<a, b, c>>

\* format!("{{{}}}", token)
Placeholder(token) == <<"{">> \o token \o <<"}">>

MatchAt(s, pat, i) ==
    /\ i + Len(pat) - 1 <= Len(s)
    /\ \A k \in 1..Len(pat) : s[i + k - 1] = pat[k]

RECURSIVE ReplaceFrom(_, _, _, _)
ReplaceFrom(s, pat, val, i) ==
    IF i > Len(s) THEN <<>>
    ELSE IF MatchAt(s, pat, i)
         THEN val \o ReplaceFrom(s, pat, val, i + Len(pat))
         ELSE <<s[i]>> \o ReplaceFrom(s, pat, val, i + 1)

\* str::replace(from, to): every non-overlapping match, left to right
Replace(s, pat, val) == ReplaceFrom(s, pat, val, 1)

\* one pass of the personalization loop body
PersonalizeStep(msg, tokens, token) ==
    Replace(msg, Placeholder(token), tokens[token])

\* the personalization loop: `order` is the iteration order of the HashMap
RECURSIVE Personalize(_, _, _)
Personalize(msg, tokens, order) ==
    IF order = <<>> THEN msg
    ELSE Personalize(PersonalizeStep(msg, tokens, Head(order)), tokens, Tail(order))

\* the iteration orders a HashMap with key set `keys` can produce
Orders(keys) ==
    {o \in [1..Cardinality(keys) -> keys] :
        \A i, j \in 1..Cardinality(keys) : i # j => o[i] # o[j]}

\* ---------------------------------------------------------------- inputs
STATUS_SENT == "sent"
STATUS_FAILED == "failed"
DELIVERY_ERROR == "Failed to send message"
NOT_CONNECTED == "WhatsApp session not connected"
EMIT_ERROR == "emit error"
OK == "Ok"

QR_CODE_EVENT == "whatsapp-qr-code"
CONNECTED_EVENT == "whatsapp-connected"
PROGRESS_EVENT == "whatsapp-message-progress"
COMPLETE_EVENT == "whatsapp-bulk-complete"

\* StudentMessage values the batches are built from: one with an attachment
\* and two tokens, one with neither.
StudentMessage ==
    { [student_id |-> "s1", name |-> "Ana", phone |-> "p1",
       receipt_path |-> "r1",
       personalization_tokens |-> (Str1("a") :> Str1("x") @@ Str1("b") :> Str1("y"))],
      [student_id |-> "s2", name |-> "Bob", phone |-> "p2",
       receipt_path |-> None,
       personalization_tokens |-> <<>>] }

SeqsUpTo(S, n) == UNION {[1..k -> S] : k \in 0..n}

\* BulkMessageRequest values
BulkMessageRequest ==
    [students : SeqsUpTo(StudentMessage, MaxRecipients),
     message_template : {Str3("{", "a", "}")},
     attach_receipt : BOOLEAN,
     interval_seconds : {2}]

NoRequest ==
    [students |-> <<>>, message_template |-> <<>>,
     attach_receipt |-> FALSE, interval_seconds |-> 0]

\* ---------------------------------------------------------------- state
VARIABLES
    is_connected,   \* WhatsAppManager.is_connected
    session,        \* WhatsAppManager.session: {} is None, {id} is Some(id)
    uuidCount,      \* identifiers generated so far by Uuid::new_v4
    signals,        \* accepted emissions of the two session events, counted
                    \* since the last disconnect
    pc,             \* position of each caller
    request,        \* the batch request of the batch in flight (or last run)
    index,          \* loop index of send_bulk_messages
    total,          \* request.students.len()
    result,         \* outcome of the last send_individual_message
    calls,          \* invocations of send_individual_message, in order
    events,         \* emissions the window accepted for the batch, in order
    sleeps,         \* pacing suspensions of the batch, as the durations slept
    last,           \* the call that ran last on the manager and what it
                    \* returned (res is None while it runs)
    view,           \* per caller: the session_id initialize_session returned to
                    \* it since the last disconnect
    contended,      \* an initialize_session was issued while another one was
                    \* settling, since the last disconnect
    rTemplate, rTokens, rOrder, rMessage   \* the renderer on its own

storeVars == <<is_connected, session, uuidCount, signals>>
batchVars == <<request, index, total, result, calls, events, sleeps>>
ghostVars == <<last, view, contended>>
renderVars == <<rTemplate, rTokens, rOrder, rMessage>>
vars == <<storeVars, pc, batchVars, ghostVars, renderVars>>

Returned(op, res, sid) == [op |-> op, res |-> res, sid |-> sid]

\* WhatsAppManager::new()
New ==
    /\ session = {}
    /\ is_connected = FALSE

InitStore ==
    /\ New
    /\ uuidCount = 0
    /\ signals = [qr |-> 0, connected |-> 0]
    /\ pc = [c \in Callers |-> "idle"]
    /\ request = NoRequest
    /\ index = 0
    /\ total = 0
    /\ result = None
    /\ calls = <<>>
    /\ events = <<>>
    /\ sleeps = <<>>
    /\ last = Returned("new", OK, {})
    /\ view = [c \in Callers |-> {}]
    /\ contended = FALSE

InitRenderIdle ==
    /\ rTemplate = <<>>
    /\ rTokens = <<>>
    /\ rOrder = <<>>
    /\ rMessage = <<>>

Init == InitStore /\ InitRenderIdle

\* ---------------------------------------------------------------- borrows
\* Positions at which a caller is inside initialize_session or
\* send_bulk_messages, and so holds its borrow of the manager.
InSession == {"init_settle"}
InBatch == {"bulk_deliver", "bulk_emit", "bulk_pace", "bulk_complete"}

ExclusiveFree_NoExclusion(c) == TRUE

\* `&mut self`: the call runs only while no other call holds the manager.
ExclusiveFree(c) == \A d \in Callers \ {c} : pc[d] \notin InSession \cup InBatch

\* `&self`: the call runs only while no `&mut self` call holds the manager.
\* Batches share no mutable state; one batch at a time is modelled.
SharedFree(c) == \A d \in Callers \ {c} : pc[d] \notin InSession \cup InBatch

\* the call `op` of caller c returns `res`
Return(c, op, res, sid) ==
    /\ pc' = [pc EXCEPT ![c] = "idle"]
    /\ last' = Returned(op, res, sid)

\* The record of a batch (its request, calls, events and sleeps) is kept
\* until the next session call runs on the manager.
ForgetBatch ==
    /\ request' = NoRequest
    /\ index' = 0
    /\ total' = 0
    /\ result' = None
    /\ calls' = <<>>
    /\ events' = <<>>
    /\ sleeps' = <<>>

\* ---------------------------------------------------------------- session
\* A caller issues initialize_session; it starts once it has the manager.
ConnectCall(c) ==
    /\ pc[c] = "idle"
    /\ pc' = [pc EXCEPT ![c] = "init_wait"]
    /\ contended' = (contended \/ \E d \in Callers \ {c} : pc[d] \in InSession)
    /\ UNCHANGED <<storeVars, batchVars, last, view, renderVars>>

AlreadyConnected_Never == FALSE

\* `if self.is_connected`
AlreadyConnected == is_connected

\* initialize_session up to its await: the early return, or the QR emission
InitializeSessionBegin(c) ==
    /\ pc[c] = "init_wait"
    /\ ExclusiveFree(c)
    /\ IF AlreadyConnected
       THEN /\ Return(c, "connect", OK, session)
            /\ view' = [view EXCEPT ![c] = session]
            /\ UNCHANGED <<storeVars>>
       ELSE \E accepted \in BOOLEAN :
              IF accepted
              THEN /\ uuidCount < MaxSessions
                   /\ signals' = [signals EXCEPT !.qr = @ + 1]
                   /\ pc' = [pc EXCEPT ![c] = "init_settle"]
                   /\ last' = Returned("connect", None, {})
                   /\ UNCHANGED <<is_connected, session, uuidCount, view>>
              ELSE /\ Return(c, "connect", EMIT_ERROR, {})
                   /\ UNCHANGED <<storeVars, view>>
    /\ ForgetBatch
    /\ UNCHANGED <<contended, renderVars>>

\* initialize_session after the sleep: new identifier, connected, the
\* connected emission, the return
InitializeSessionSettle(c) ==
    /\ pc[c] = "init_settle"
    /\ session' = {uuidCount + 1}
    /\ uuidCount' = uuidCount + 1
    /\ is_connected' = TRUE
    /\ \E accepted \in BOOLEAN :
         IF accepted
         THEN /\ signals' = [signals EXCEPT !.connected = @ + 1]
              /\ Return(c, "connect", OK, session')
              /\ view' = [view EXCEPT ![c] = session']
         ELSE /\ Return(c, "connect", EMIT_ERROR, {})
              /\ UNCHANGED <<signals, view>>
    /\ ForgetBatch
    /\ UNCHANGED <<contended, renderVars>>

Disconnect_KeepsSession(c) ==
    /\ pc[c] = "idle"
    /\ ExclusiveFree(c)
    /\ is_connected' = FALSE
    /\ Return(c, "disconnect", OK, {})
    /\ view' = [d \in Callers |-> {}]
    /\ contended' = FALSE
    /\ signals' = [qr |-> 0, connected |-> 0]
    /\ ForgetBatch
    /\ UNCHANGED <<session, uuidCount, renderVars>>

\* disconnect()
Disconnect(c) ==
    /\ pc[c] = "idle"
    /\ ExclusiveFree(c)
    /\ session' = {}
    /\ is_connected' = FALSE
    /\ Return(c, "disconnect", OK, {})
    /\ view' = [d \in Callers |-> {}]
    /\ contended' = FALSE
    /\ signals' = [qr |-> 0, connected |-> 0]
    /\ ForgetBatch
    /\ UNCHANGED <<uuidCount, renderVars>>

\* ---------------------------------------------------------------- batch
SessionNotConnected_Never == FALSE

\* `if !self.is_connected`
SessionNotConnected == ~is_connected

\* the third argument of send_individual_message
ReceiptArgument(req, student) == student.receipt_path

MessageProgress_ProcessedFromZero(student, res, i, n) ==
    [student_id |-> student.student_id,
     name |-> student.name,
     phone |-> student.phone,
     status |-> IF res = OK THEN STATUS_SENT ELSE STATUS_FAILED,
     error |-> IF res = OK THEN None ELSE res,
     processed |-> i,
     total |-> n]

MessageProgress_AlwaysSent(student, res, i, n) ==
    [student_id |-> student.student_id,
     name |-> student.name,
     phone |-> student.phone,
     status |-> STATUS_SENT,
     error |-> None,
     processed |-> i + 1,
     total |-> n]

\* MessageProgress { .. } built from the outcome `res` of the delivery
MessageProgress(student, res, i, n) ==
    [student_id |-> student.student_id,
     name |-> student.name,
     phone |-> student.phone,
     status |-> IF res = OK THEN STATUS_SENT ELSE STATUS_FAILED,
     error |-> IF res = OK THEN None ELSE res,
     processed |-> i + 1,
     total |-> n]

ProgressEmission(progress) == [event |-> PROGRESS_EVENT, payload |-> progress]
CompleteEmission == [event |-> COMPLETE_EVENT, payload |-> None]

AfterProgressEmit_IgnoresError(accepted, i, n) ==
    IF i < n - 1 THEN "bulk_pace" ELSE "bulk_complete"

AfterProgressEmit_PaceAfterLast(accepted, i, n) ==
    IF ~accepted THEN "idle"
    ELSE IF i < n THEN "bulk_pace" ELSE "bulk_complete"

\* where the loop goes after `window.emit(..)?`: out of the call on an
\* emit error, to the pacing sleep when `index < total - 1`, else past the
\* loop.  Inside the loop total >= 1, so `total - 1` does not wrap.
AfterProgressEmit(accepted, i, n) ==
    IF ~accepted THEN "idle"
    ELSE IF i < n - 1 THEN "bulk_pace" ELSE "bulk_complete"

\* send_bulk_messages up to the loop
SendBulkBegin(c, req) ==
    /\ pc[c] = "idle"
    /\ SharedFree(c)
    /\ request' = req
    /\ total' = Len(req.students)
    /\ index' = 0
    /\ result' = None
    /\ calls' = <<>>
    /\ events' = <<>>
    /\ sleeps' = <<>>
    /\ IF SessionNotConnected
       THEN Return(c, "send_bulk", NOT_CONNECTED, {})
       ELSE /\ last' = Returned("send_bulk", None, {})
            /\ pc' = [pc EXCEPT ![c] =
                        IF Len(req.students) = 0 THEN "bulk_complete" ELSE "bulk_deliver"]
    /\ UNCHANGED <<storeVars, view, contended, renderVars>>

\* one iteration, up to the result of send_individual_message
SendBulkDeliver(c) ==
    /\ pc[c] = "bulk_deliver"
    /\ LET student == request.students[index + 1] IN
       \E order \in Orders(DOMAIN student.personalization_tokens),
          res \in {OK, DELIVERY_ERROR} :
           /\ calls' = Append(calls,
                  [phone |-> student.phone,
                   message |-> Personalize(request.message_template,
                                           student.personalization_tokens, order),
                   receipt_path |-> ReceiptArgument(request, student),
                   result |-> res])
           /\ result' = res
    /\ pc' = [pc EXCEPT ![c] = "bulk_emit"]
    /\ UNCHANGED <<storeVars, request, index, total, events, sleeps,
                   ghostVars, renderVars>>

\* the progress emission of the iteration
SendBulkEmit(c) ==
    /\ pc[c] = "bulk_emit"
    /\ \E accepted \in BOOLEAN :
         /\ events' = IF accepted
                      THEN Append(events, ProgressEmission(
                               MessageProgress(request.students[index + 1],
                                               result, index, total)))
                      ELSE events
         /\ pc' = [pc EXCEPT ![c] = AfterProgressEmit(accepted, index, total)]
         /\ last' = IF pc'[c] = "idle"
                    THEN Returned("send_bulk", EMIT_ERROR, {}) ELSE last
         /\ index' = IF pc'[c] = "bulk_complete" THEN index + 1 ELSE index
    /\ UNCHANGED <<storeVars, request, total, result, calls, sleeps,
                   view, contended, renderVars>>

\* the sleep between two recipients
SendBulkPace(c) ==
    /\ pc[c] = "bulk_pace"
    /\ sleeps' = Append(sleeps, request.interval_seconds)
    /\ index' = index + 1
    /\ pc' = [pc EXCEPT ![c] = "bulk_deliver"]
    /\ UNCHANGED <<storeVars, request, total, result, calls, events,
                   ghostVars, renderVars>>

\* the completion emission and the return
SendBulkComplete(c) ==
    /\ pc[c] = "bulk_complete"
    /\ \E accepted \in BOOLEAN :
         IF accepted
         THEN /\ events' = Append(events, CompleteEmission)
              /\ Return(c, "send_bulk", OK, {})
         ELSE /\ Return(c, "send_bulk", EMIT_ERROR, {})
              /\ UNCHANGED events
    /\ UNCHANGED <<storeVars, request, index, total, result, calls, sleeps,
                   view, contended, renderVars>>

\* ---------------------------------------------------------------- system
Next ==
    \/ \E c \in Callers : ConnectCall(c)
    \/ \E c \in Callers : InitializeSessionBegin(c)
    \/ \E c \in Callers : InitializeSessionSettle(c)
    \/ \E c \in Callers : Disconnect(c)
    \/ \E c \in Callers, req \in BulkMessageRequest : SendBulkBegin(c, req)
    \/ \E c \in Callers : SendBulkDeliver(c)
    \/ \E c \in Callers : SendBulkEmit(c)
    \/ \E c \in Callers : SendBulkPace(c)
    \/ \E c \in Callers : SendBulkComplete(c)

Spec == Init /\ [][Next]_vars

\* ---------------------------------------------------------------- renderer
\* The personalization loop on its own, over every template of up to
\* MaxTemplateLen characters and every token mapping over two names.
Alphabet == {"{", "}", "a", "b", "x"}
Templates == SeqsUpTo(Alphabet, MaxTemplateLen)
TokenNames == {Str1("a"), Str1("b")}
TokenValues == {<<>>, Str1("x"), Str3("{", "a", "}"), Str3("{", "b", "}")}
TokenMaps == UNION {[K -> TokenValues] : K \in SUBSET TokenNames}

\* `let mut personalized_message = request.message_template.clone()`, with
\* the iteration order the HashMap is about to produce
InitRender ==
    /\ InitStore
    /\ rTemplate \in Templates
    /\ rTokens \in TokenMaps
    /\ rOrder \in Orders(DOMAIN rTokens)
    /\ rMessage = rTemplate

\* one iteration of `for (token, value) in &student.personalization_tokens`
RenderStep ==
    /\ rOrder # <<>>
    /\ rMessage' = PersonalizeStep(rMessage, rTokens, Head(rOrder))
    /\ rOrder' = Tail(rOrder)
    /\ UNCHANGED <<storeVars, pc, batchVars, ghostVars, rTemplate, rTokens>>

SpecRender == InitRender /\ [][RenderStep]_vars

\* ---------------------------------------------------------------- claims
N == Len(request.students)
Finished(res) == last.op = "send_bulk" /\ last.res = res
IsProgress(e) == e.event = PROGRESS_EVENT
IsComplete(e) == e.event = COMPLETE_EVENT

\* C1: send_bulk_messages called while the session is not connected returns
\* the not-connected error and does nothing: no delivery attempt, no progress
\* event, no completion event, no pacing sleep, whatever the request.
C1_NotConnectedNoWork ==
    (last.op = "send_bulk" /\ ~is_connected) =>
        /\ last.res = NOT_CONNECTED
        /\ calls = <<>>
        /\ events = <<>>
        /\ sleeps = <<>>

C1_Witness ==
    /\ Finished(NOT_CONNECTED)
    /\ N >= 1

\* C2: a batch of N recipients (N >= 0) on a connected session in which every
\* delivery and every emission succeeds leaves exactly N progress events
\* followed by one completion event; the i-th event is the i-th recipient's,
\* with processed = i and total = N.
C2_AllEventsInOrder ==
    (Finished(OK) /\ \A i \in DOMAIN calls : calls[i].result = OK) =>
        /\ Len(events) = N + 1
        /\ \A i \in 1..N :
             /\ IsProgress(events[i])
             /\ events[i].payload.student_id = request.students[i].student_id
             /\ events[i].payload.name = request.students[i].name
             /\ events[i].payload.phone = request.students[i].phone
             /\ events[i].payload.processed = i
             /\ events[i].payload.total = N
        /\ IsComplete(events[N + 1])

C2_Witness ==
    /\ Finished(OK)
    /\ \A i \in DOMAIN calls : calls[i].result = OK
    /\ N >= 2
    /\ request.students[1] # request.students[2]

\* C3: delivery failures are isolated per recipient: at every moment of a
\* batch the delivery attempts are the recipients 1..k in order, once each;
\* and when the sink accepted every event, each of the N recipients has one
\* attempt and one progress event, 'failed' with the error description if its
\* delivery failed and 'sent' otherwise, with processed = position and
\* total = N, and the call returned success.
C3_FailuresIsolated ==
    /\ Len(calls) <= N
    /\ \A i \in DOMAIN calls : calls[i].phone = request.students[i].phone
    /\ (last.op = "send_bulk" /\ last.res \notin {None, NOT_CONNECTED, EMIT_ERROR}) =>
         /\ last.res = OK
         /\ Len(calls) = N
         /\ Len(events) = N + 1
         /\ \A i \in 1..N :
              /\ IsProgress(events[i])
              /\ events[i].payload.student_id = request.students[i].student_id
              /\ events[i].payload.status =
                     IF calls[i].result = OK THEN STATUS_SENT ELSE STATUS_FAILED
              /\ events[i].payload.error =
                     IF calls[i].result = OK THEN None ELSE DELIVERY_ERROR
              /\ events[i].payload.processed = i
              /\ events[i].payload.total = N

C3_Witness ==
    /\ Finished(OK)
    /\ N >= 2
    /\ calls[1].result = DELIVERY_ERROR
    /\ calls[2].result = OK

\* C4: when the sink rejects the progress event of recipient k, the call
\* returns the emit error at once: recipients k+1..N get no delivery attempt
\* and no event, no pacing sleep follows the rejected event, and no
\* completion event is emitted; a completion event only ever follows the
\* accepted events of all N recipients.
C4_SinkErrorAborts ==
    /\ (Finished(EMIT_ERROR) /\ Len(events) < N) =>
         /\ Len(calls) = Len(events) + 1
         /\ Len(sleeps) = Len(events)
         /\ \A i \in DOMAIN events : IsProgress(events[i])
    /\ \A i \in DOMAIN events :
         IsComplete(events[i]) =>
             /\ i = N + 1
             /\ \A j \in 1..N : IsProgress(events[j])

C4_Witness ==
    /\ Finished(EMIT_ERROR)
    /\ N >= 2
    /\ Len(events) = 0
    /\ Len(calls) = 1

\* C5: whenever initialize_session fails because an emission is rejected,
\* the QR-code one or the connected one, the store is disconnected
\* afterwards: is_connected is false and session is None.
C5_FailedConnectLeavesDisconnected ==
    (last.op = "connect" /\ last.res = EMIT_ERROR) =>
        (~is_connected /\ session = {})

\* C6: between calls the session identifier is set exactly when is_connected
\* is true; disconnect leaves is_connected false and no identifier, and a
\* successful initialize_session leaves is_connected true with the
\* identifier it returned.
C6_SessionIffConnected ==
    /\ (session # {}) <=> is_connected
    /\ Cardinality(session) <= 1
    /\ last.op = "disconnect" => (~is_connected /\ session = {})
    /\ (last.op = "connect" /\ last.res = OK) =>
           (is_connected /\ session # {} /\ last.sid = session)

C6_Witness ==
    /\ last.op = "disconnect"
    /\ uuidCount >= 1

\* C7: two initialize_session calls issued concurrently on one manager never
\* yield two identifiers: at most one of them is past the check at a time,
\* and every identifier returned to a caller since the last disconnect is
\* the one the store holds.
C7_OneSessionId ==
    /\ Cardinality({c \in Callers : pc[c] \in InSession}) <= 1
    /\ \A c \in Callers : view[c] \subseteq session
    /\ \A c, d \in Callers : (view[c] # {} /\ view[d] # {}) => view[c] = view[d]

C7_Witness ==
    /\ contended
    /\ \A c \in Callers : view[c] # {}

\* The rendering the claim describes: one left-to-right pass over the
\* template that replaces each placeholder whose name is a key by its value
\* and copies everything else, never looking into a value it has written.
RECURSIVE RenderOnceFrom(_, _, _)
RenderOnceFrom(t, m, i) ==
    IF i > Len(t) THEN <<>>
    ELSE LET hits == {k \in DOMAIN m : MatchAt(t, Placeholder(k), i)} IN
         IF hits # {}
         THEN LET k == CHOOSE k \in hits : TRUE IN
              m[k] \o RenderOnceFrom(t, m, i + Len(Placeholder(k)))
         ELSE <<t[i]>> \o RenderOnceFrom(t, m, i + 1)

\* C8: the rendered message leaves every placeholder whose name is not a key
\* verbatim and replaces every placeholder whose name is a key by exactly its
\* value; the result is the same for every order of the tokens, and a
\* substituted value is never scanned again.
C8_RenderLiteralAnyOrder ==
    rOrder = <<>> =>
        /\ rMessage = RenderOnceFrom(rTemplate, rTokens, 1)
        /\ \A o \in Orders(DOMAIN rTokens) :
               Personalize(rTemplate, rTokens, o) = rMessage

\* C9: initialize_session on a connected store changes nothing: it returns
\* the identifier the store holds, leaves is_connected and session as they
\* are, generates no identifier and emits neither session event.
C9_ConnectOnConnectedNoOp ==
    [][\A c \in Callers :
         (pc[c] = "init_wait" /\ pc'[c] # "init_wait" /\ is_connected) =>
             /\ pc'[c] = "idle"
             /\ is_connected' = is_connected
             /\ session' = session
             /\ uuidCount' = uuidCount
             /\ signals' = signals
             /\ last' = Returned("connect", OK, session)
             /\ view'[c] = session]_vars

C9_Witness ==
    /\ \A c \in Callers : view[c] # {}
    /\ signals.qr = 1
    /\ ~contended

\* C10: the delivery client is given a recipient's attachment only when the
\* request's attach_receipt flag is true.
C10_AttachmentOnlyWhenFlagged ==
    \A i \in DOMAIN calls :
        calls[i].receipt_path # None => request.attach_receipt

ProgressCount == Cardinality({i \in DOMAIN events : IsProgress(events[i])})
PacingExpected == IF N = 0 THEN 0 ELSE N - 1

\* C11: in a batch of N >= 1 recipients that no rejected progress event
\* aborts, the pacing sleep happens exactly N-1 times: once after the
\* accepted progress event of each recipient 1..N-1 and before the delivery
\* attempt of the next one, whether the delivery succeeded or failed, never
\* after the last recipient (the completion emission follows the last
\* progress event directly); for N = 0 there is no sleep.  Every sleep lasts
\* interval_seconds.
C11_PacingBetweenRecipients ==
    /\ \A i \in DOMAIN sleeps : sleeps[i] = request.interval_seconds
    /\ Len(sleeps) <= ProgressCount
    /\ \A c \in Callers :
         /\ pc[c] = "bulk_pace" =>
               /\ Len(events) < N
               /\ Len(calls) = Len(events)
               /\ Len(sleeps) = Len(events) - 1
         /\ pc[c] = "bulk_deliver" => Len(sleeps) = Len(calls)
         /\ pc[c] = "bulk_emit" => Len(sleeps) = Len(calls) - 1
         /\ pc[c] = "bulk_complete" =>
               (ProgressCount = N /\ Len(sleeps) = PacingExpected)
    /\ (last.op = "send_bulk" /\ last.res \in {OK, EMIT_ERROR} /\ ProgressCount = N) =>
         Len(sleeps) = PacingExpected

C11_Witness ==
    /\ Finished(OK)
    /\ N >= 2
    /\ calls[1].result = DELIVERY_ERROR
    /\ Len(sleeps) = N - 1

====
